---------------------------- MODULE Spec2Model ----------------------------
(***************************************************************************)
(* Replacement engine of the Teacher Replacement System                    *)
(* (src/Streamlit_Upload/app.py): get_required_slots and                   *)
(* generate_multi_replacement_plan, as a state machine.                    *)
(*                                                                         *)
(* A run is one invocation of generate_multi_replacement_plan(df,          *)
(* absent_teachers, day).  Its position is pc[r]:                          *)
(*   "call"   the arguments are bound, line 109 has not run yet;           *)
(*   "loop"   lines 109-115 have run, the for loop of line 117 is at slot  *)
(*            number idx[r] of required_slots[r];                          *)
(*   "return" line 200 has returned plans[r];                              *)
(*   "idle"   the run does not take place.                                 *)
(* The timetable df and ALL_TEACHERS are module-level and shared by the    *)
(* runs; substitute_load, busy_substitutes and plans are locals of a run.  *)
(***************************************************************************)
EXTENDS Integers, Sequences, FiniteSets, TLC

VARIABLES df, absent_teachers, day, pc, required_slots, idx,
          substitute_load, busy_substitutes, plans

vars == <<df, absent_teachers, day, pc, required_slots, idx,
          substitute_load, busy_substitutes, plans>>

-----------------------------------------------------------------------------
(* Program constants *)

\* app.py:31
MAX_SUBSTITUTIONS_PER_DAY == 2

\* app.py:29
DAYS == <<"Monday", "Tuesday", "Wednesday", "Thursday", "Friday", "Saturday">>

\* app.py:192: the "no substitute" sentinel, an em dash in the source
NoSubstitute == "--"

\* app.py:194-196: Python's None; a number n in the same column is <<n>>
None == <<>>

Some(n) == <<n>>

\* app.py:197
NoSuitableReason == <<"No suitable substitute available">>

-----------------------------------------------------------------------------
(* Bounds and the data of the runs *)

\* periods of a school day are 1 .. NumPeriods
NumPeriods == 3

\* rows appended to a sample timetable
MaxExtra == 1

Runs == {1, 2}

\* teacher names after normalize_teacher_name, in the order sorted() gives
TeacherNames == <<"Asha", "Bina", "Chitra">>

Teachers == {TeacherNames[i] : i \in DOMAIN TeacherNames}

Periods == 1 .. NumPeriods

Subjects == {"Math", "Science"}

\* the days that occur in the timetable
TimetableDays == {"Monday", "Tuesday"}

\* the day labels a caller passes: those, and one that is no member of DAYS
RequestDays == TimetableDays \cup {"Sunday"}

Row(t, d, p, c, s) ==
    [teacher |-> t, day |-> d, period |-> p, class |-> c, subject |-> s]

-----------------------------------------------------------------------------
(* Helpers on sequences *)

Range(s) == {s[i] : i \in DOMAIN s}

\* x in s, for a Python list s
InList(x, s) == \E i \in DOMAIN s : s[i] = x

RECURSIVE Flatten(_)
Flatten(ss) ==
    IF ss = <<>> THEN <<>> ELSE Head(ss) \o Flatten(Tail(ss))

\* x put into the period-sorted sequence s behind every element whose period
\* is not greater: the step of a stable sort
InsertByPeriod(s, x) ==
    LET k == Cardinality({i \in DOMAIN s : s[i].period <= x.period})
    IN  SubSeq(s, 1, k) \o <<x>> \o SubSeq(s, k + 1, Len(s))

RECURSIVE StableSortByPeriod(_)
StableSortByPeriod(s) ==
    IF s = <<>> THEN <<>>
    ELSE InsertByPeriod(StableSortByPeriod(SubSeq(s, 1, Len(s) - 1)), s[Len(s)])

-----------------------------------------------------------------------------
(* The module-level data and the helpers of app.py *)

\* app.py:66  sorted(df["teacher"].dropna().unique())
ALL_TEACHERS ==
    SelectSeq(TeacherNames, LAMBDA t : \E i \in DOMAIN df : df[i].teacher = t)

\* get_teacher_schedule without the day filter of line 76
get_teacher_schedule_AnyDay(teacher, d) ==
    StableSortByPeriod(SelectSeq(df, LAMBDA row : row.teacher = teacher))

\* app.py:74-79  the teacher's rows of the day, by period; rows of one period
\* keep the order of df
get_teacher_schedule(teacher, d) ==
    StableSortByPeriod(
        SelectSeq(df, LAMBDA row : row.teacher = teacher /\ row.day = d))

\* app.py:82-83
get_teacher_load(teacher, d) ==
    Len(SelectSeq(df, LAMBDA row : row.teacher = teacher /\ row.day = d))

\* app.py:97-102
SlotOf(teacher, row) ==
    [absent_teacher |-> teacher, period |-> row.period,
     class |-> row.class, subject |-> row.subject]

\* app.py:90-104
get_required_slots(absent, d) ==
    Flatten([k \in DOMAIN absent |->
        LET schedule == get_teacher_schedule(absent[k], d)
        IN  [n \in DOMAIN schedule |-> SlotOf(absent[k], schedule[n])]])

\* line 110 left out: the slots stay in the order of the absent teachers
SortSlots_Omitted(slots) == slots

\* app.py:110  required_slots.sort(key=lambda x: x["period"]); list.sort is stable
SortSlots(slots) == StableSortByPeriod(slots)

-----------------------------------------------------------------------------
(* Candidate building, app.py:121-163, for run r *)

\* line 125 testing the first absent teacher only
IsAbsent_FirstOnly(r, teacher) == teacher = absent_teachers[r][1]

\* app.py:125  teacher in absent_teachers
IsAbsent(r, teacher) == InList(teacher, absent_teachers[r])

\* lines 129-133 testing the first day of DAYS instead of the day of the run
HasLesson_FirstDay(teacher, d, period) ==
    \E i \in DOMAIN df :
        df[i].teacher = teacher /\ df[i].day = DAYS[1] /\ df[i].period = period

\* app.py:129-133  the teacher has a row at (day, period): not free
HasLesson(teacher, d, period) ==
    \E i \in DOMAIN df :
        df[i].teacher = teacher /\ df[i].day = d /\ df[i].period = period

\* lines 137-138 left out
IsBusy_Never(r, teacher, period) == FALSE

\* line 137 looking the teacher up under the key of another period
IsBusy_WrongKey(r, teacher, period) ==
    teacher \in busy_substitutes[r][<<day[r], (period % NumPeriods) + 1>>]

\* app.py:137  teacher in busy_substitutes[(day, period)]
IsBusy(r, teacher, period) ==
    teacher \in busy_substitutes[r][<<day[r], period>>]

\* line 141 comparing with the cap less one
AtCap_OneEarly(r, teacher) ==
    substitute_load[r][<<teacher, day[r]>>] >= MAX_SUBSTITUTIONS_PER_DAY - 1

\* line 141 with > for >=
AtCap_OffByOne(r, teacher) ==
    substitute_load[r][<<teacher, day[r]>>] > MAX_SUBSTITUTIONS_PER_DAY

\* app.py:141  substitute_load[(teacher, day)] >= MAX_SUBSTITUTIONS_PER_DAY
AtCap(r, teacher) ==
    substitute_load[r][<<teacher, day[r]>>] >= MAX_SUBSTITUTIONS_PER_DAY

\* app.py:125-142  the four filters, each a continue
PassesFilters(r, teacher, period) ==
    /\ ~IsAbsent(r, teacher)
    /\ ~HasLesson(teacher, day[r], period)
    /\ ~IsBusy(r, teacher, period)
    /\ ~AtCap(r, teacher)

\* app.py:145-148  any row of the teacher with the subject, whatever the day
teaches_subject(teacher, subject) ==
    \E i \in DOMAIN df : df[i].teacher = teacher /\ df[i].subject = subject

\* line 152 with the load term cut off at 0
Score_Clamped(teaches, daily_load) ==
    (IF teaches THEN 100 ELSE 0) + (IF daily_load > 10 THEN 0 ELSE 10 - daily_load)

\* line 152 with the load added instead of subtracted
Score_LoadAdded(teaches, daily_load) ==
    (IF teaches THEN 100 ELSE 0) + (10 + daily_load)

\* line 152 with a subject bonus of 10
Score_SmallBonus(teaches, daily_load) ==
    (IF teaches THEN 10 ELSE 0) + (10 - daily_load)

\* app.py:152
Score(teaches, daily_load) ==
    (IF teaches THEN 100 ELSE 0) + (10 - daily_load)

\* app.py:160-162  the f-string, as its parts
ReasonOf(teaches, daily_load) ==
    <<(IF teaches THEN "Same subject, " ELSE "Different subject, "),
      "daily load ", daily_load>>

\* line 159 reading the counter as it is after the increment of line 169
CandidateOf_AfterIncrement(r, teacher, subject) ==
    LET teaches == teaches_subject(teacher, subject)
        daily_load == get_teacher_load(teacher, day[r])
    IN  [teacher |-> teacher,
         score |-> Score(teaches, daily_load),
         is_same_subject |-> teaches,
         daily_load |-> daily_load,
         subs_today |-> substitute_load[r][<<teacher, day[r]>>] + 1,
         reason |-> ReasonOf(teaches, daily_load)]

\* app.py:144-163
CandidateOf(r, teacher, subject) ==
    LET teaches == teaches_subject(teacher, subject)
        daily_load == get_teacher_load(teacher, day[r])
    IN  [teacher |-> teacher,
         score |-> Score(teaches, daily_load),
         is_same_subject |-> teaches,
         daily_load |-> daily_load,
         subs_today |-> substitute_load[r][<<teacher, day[r]>>],
         reason |-> ReasonOf(teaches, daily_load)]

\* app.py:121-163  the candidates list, in the order of ALL_TEACHERS
Candidates(r, slot) ==
    LET passing == SelectSeq(ALL_TEACHERS,
                             LAMBDA t : PassesFilters(r, t, slot.period))
    IN  [n \in DOMAIN passing |-> CandidateOf(r, passing[n], slot.subject)]

\* line 166 keeping the last of the greatest score, as a scan with >= does
MaxByScore_Last(candidates) ==
    LET last == CHOOSE i \in DOMAIN candidates :
                    \A j \in DOMAIN candidates :
                        /\ candidates[j].score <= candidates[i].score
                        /\ j > i => candidates[j].score < candidates[i].score
    IN  candidates[last]

\* app.py:166  max(candidates, key=score): the first of the greatest score
MaxByScore(candidates) ==
    LET first == CHOOSE i \in DOMAIN candidates :
                     \A j \in DOMAIN candidates :
                         /\ candidates[j].score <= candidates[i].score
                         /\ j < i => candidates[j].score < candidates[i].score
    IN  candidates[first]

\* app.py:172-184
SuccessRecord(r, slot, best) ==
    [Absent_Teacher |-> slot.absent_teacher,
     Day |-> day[r],
     Period |-> slot.period,
     Substitute_Teaching_Class |-> slot.class,
     Subject |-> slot.subject,
     Substitute_Teacher |-> best.teacher,
     Is_Same_Subject |-> best.is_same_subject,
     Teacher_Daily_Load |-> Some(best.daily_load),
     Substitutions_Today |-> Some(best.subs_today),
     Selection_Score |-> Some(best.score),
     Why_Selected |-> best.reason]

\* lines 194-196 writing 0 instead of None
FailureRecord_Zeroes(r, slot) ==
    [Absent_Teacher |-> slot.absent_teacher,
     Day |-> day[r],
     Period |-> slot.period,
     Substitute_Teaching_Class |-> slot.class,
     Subject |-> slot.subject,
     Substitute_Teacher |-> NoSubstitute,
     Is_Same_Subject |-> FALSE,
     Teacher_Daily_Load |-> Some(0),
     Substitutions_Today |-> Some(0),
     Selection_Score |-> Some(0),
     Why_Selected |-> NoSuitableReason]

\* app.py:186-198
FailureRecord(r, slot) ==
    [Absent_Teacher |-> slot.absent_teacher,
     Day |-> day[r],
     Period |-> slot.period,
     Substitute_Teaching_Class |-> slot.class,
     Subject |-> slot.subject,
     Substitute_Teacher |-> NoSubstitute,
     Is_Same_Subject |-> FALSE,
     Teacher_Daily_Load |-> None,
     Substitutions_Today |-> None,
     Selection_Score |-> None,
     Why_Selected |-> NoSuitableReason]

\* line 112 as a module-level dictionary: a run goes on from the counters
\* the other run has reached
NewSubstituteLoad_Shared(r) ==
    substitute_load[CHOOSE other \in Runs : other # r]

\* app.py:112  substitute_load = defaultdict(int): every key reads 0
NewSubstituteLoad(r) == [k \in Teachers \X RequestDays |-> 0]

\* line 113 as a module-level dictionary: a run goes on from the busy sets
\* the other run has reached
NewBusySubstitutes_Shared(r) ==
    busy_substitutes[CHOOSE other \in Runs : other # r]

\* app.py:113  busy_substitutes = defaultdict(set): every key reads set()
NewBusySubstitutes(r) == [k \in RequestDays \X Periods |-> {}]

-----------------------------------------------------------------------------
(* The steps of a run *)

\* app.py:109-115
Start(r) ==
    /\ pc[r] = "call"
    /\ required_slots' = [required_slots EXCEPT ![r] =
           SortSlots(get_required_slots(absent_teachers[r], day[r]))]
    /\ substitute_load' = [substitute_load EXCEPT ![r] = NewSubstituteLoad(r)]
    /\ busy_substitutes' =
           [busy_substitutes EXCEPT ![r] = NewBusySubstitutes(r)]
    /\ plans' = [plans EXCEPT ![r] = <<>>]
    /\ idx' = [idx EXCEPT ![r] = 1]
    /\ pc' = [pc EXCEPT ![r] = "loop"]
    /\ UNCHANGED <<df, absent_teachers, day>>

\* app.py:117-184  one pass of the loop body whose candidates list is not empty
Assign(r) ==
    /\ pc[r] = "loop"
    /\ idx[r] <= Len(required_slots[r])
    /\ LET slot == required_slots[r][idx[r]]
           candidates == Candidates(r, slot)
       IN  /\ candidates # <<>>
           /\ LET best == MaxByScore(candidates)
                  selected == best.teacher
              IN  /\ substitute_load' =
                         [substitute_load EXCEPT ![r][<<selected, day[r]>>] = @ + 1]
                  /\ busy_substitutes' =
                         [busy_substitutes EXCEPT ![r][<<day[r], slot.period>>] =
                              @ \cup {selected}]
                  /\ plans' = [plans EXCEPT ![r] =
                         Append(@, SuccessRecord(r, slot, best))]
    /\ idx' = [idx EXCEPT ![r] = @ + 1]
    /\ UNCHANGED <<df, absent_teachers, day, pc, required_slots>>

\* app.py:117-163, 185-198  one pass of the loop body whose candidates list is empty
MarkUnfilled(r) ==
    /\ pc[r] = "loop"
    /\ idx[r] <= Len(required_slots[r])
    /\ LET slot == required_slots[r][idx[r]]
       IN  /\ Candidates(r, slot) = <<>>
           /\ plans' = [plans EXCEPT ![r] = Append(@, FailureRecord(r, slot))]
    /\ idx' = [idx EXCEPT ![r] = @ + 1]
    /\ UNCHANGED <<df, absent_teachers, day, pc, required_slots,
                   substitute_load, busy_substitutes>>

\* app.py:200  the loop is exhausted
Return(r) ==
    /\ pc[r] = "loop"
    /\ idx[r] > Len(required_slots[r])
    /\ pc' = [pc EXCEPT ![r] = "return"]
    /\ UNCHANGED <<df, absent_teachers, day, required_slots, idx,
                   substitute_load, busy_substitutes, plans>>

Next ==
    \E r \in Runs :
        \/ Start(r)
        \/ Assign(r)
        \/ MarkUnfilled(r)
        \/ Return(r)

-----------------------------------------------------------------------------
(* Timetables and requests *)

\* two teachers with a lesson in the same period, one other teacher
TimetableB ==
    <<Row("Asha", "Tuesday", 2, "8A", "Math"),
      Row("Bina", "Tuesday", 2, "8B", "Science"),
      Row("Chitra", "Tuesday", 1, "8A", "Science")>>

\* three lessons of one teacher, listed out of period order; one other
\* teacher, of the same subject, free all day
TimetableC ==
    <<Row("Asha", "Monday", 2, "8A", "Math"),
      Row("Asha", "Monday", 1, "8B", "Math"),
      Row("Asha", "Monday", 3, "8A", "Math"),
      Row("Bina", "Tuesday", 1, "8A", "Math")>>

\* one lesson to cover; two free teachers of another subject and equal load
TimetableD ==
    <<Row("Asha", "Monday", 1, "8A", "Math"),
      Row("Bina", "Tuesday", 1, "8A", "Science"),
      Row("Chitra", "Tuesday", 2, "8B", "Science")>>

\* three lessons of one teacher; the lighter-loaded colleague is free all day,
\* the other one teaches in the last period
TimetableE ==
    <<Row("Asha", "Monday", 1, "8A", "Math"),
      Row("Asha", "Monday", 2, "8B", "Math"),
      Row("Asha", "Monday", 3, "8A", "Math"),
      Row("Bina", "Tuesday", 1, "8A", "Science"),
      Row("Chitra", "Monday", 3, "8B", "Science")>>

SampleTimetables ==
    {<<>>, TimetableB, TimetableC, TimetableD, TimetableE}

ExtraRowUniverse ==
    {Row(t, d, p, "9A", s) : t \in Teachers, d \in TimetableDays,
                             p \in Periods, s \in Subjects}

\* the sets of at most n rows of ExtraRowUniverse
RECURSIVE RowSetsUpTo(_)
RowSetsUpTo(n) ==
    IF n = 0 THEN {{}}
    ELSE LET smaller == RowSetsUpTo(n - 1)
         IN  smaller \cup {S \cup {row} : S \in smaller, row \in ExtraRowUniverse}

\* the rows of S as a sequence, in one fixed order
RECURSIVE SeqOfRows(_)
SeqOfRows(S) ==
    IF S = {} THEN <<>>
    ELSE LET row == CHOOSE x \in S : TRUE
         IN  <<row>> \o SeqOfRows(S \ {row})

ExtraRows == {SeqOfRows(S) : S \in RowSetsUpTo(MaxExtra)}

\* a sample timetable followed by up to MaxExtra rows of any kind
Timetables == {base \o extra : base \in SampleTimetables, extra \in ExtraRows}

IsDuplicateFree(s) == \A i, j \in DOMAIN s : s[i] = s[j] => i = j

\* app.py:215, 222  the multiselect hands over a list without duplicates, and
\* the engine is only called with a non-empty one.  The lists leave one name
\* out; that name need not be a teacher of the timetable, so a request may
\* still name every teacher of ALL_TEACHERS.
AbsentLists ==
    {s \in UNION {[1 .. n -> Teachers] : n \in 1 .. Len(TeacherNames) - 1} :
        IsDuplicateFree(s)}

\* one run over any timetable and any request
Init ==
    /\ df \in Timetables
    /\ \E absent \in AbsentLists, d \in RequestDays :
        /\ absent_teachers = [r \in Runs |-> IF r = 1 THEN absent ELSE <<>>]
        /\ day = [r \in Runs |-> d]
    /\ pc = [r \in Runs |-> IF r = 1 THEN "call" ELSE "idle"]
    /\ required_slots = [r \in Runs |-> <<>>]
    /\ idx = [r \in Runs |-> 0]
    /\ substitute_load = [r \in Runs |-> [k \in Teachers \X RequestDays |-> 0]]
    /\ busy_substitutes = [r \in Runs |-> [k \in RequestDays \X Periods |-> {}]]
    /\ plans = [r \in Runs |-> <<>>]

\* two runs over one of the sample timetables, each with a request of its own
InitPair ==
    /\ df \in SampleTimetables
    /\ absent_teachers \in [Runs -> AbsentLists]
    /\ day \in [Runs -> RequestDays]
    /\ pc = [r \in Runs |-> "call"]
    /\ required_slots = [r \in Runs |-> <<>>]
    /\ idx = [r \in Runs |-> 0]
    /\ substitute_load = [r \in Runs |-> [k \in Teachers \X RequestDays |-> 0]]
    /\ busy_substitutes = [r \in Runs |-> [k \in RequestDays \X Periods |-> {}]]
    /\ plans = [r \in Runs |-> <<>>]

\* daily loads on both sides of the points where the score changes sign and
\* where the load term outweighs the subject bonus
LoadValues == {0, 1, 10, 11, 100, 101}

\* three lessons to cover, in periods 1, 2 and the last; two colleagues, each
\* with one subject, one lesson on the other day and a number of lessons on
\* the day itself, all of them in the last period
LoadedTimetable(subjectB, loadB, subjectC, loadC) ==
    <<Row("Asha", "Monday", 1, "8A", "Math"),
      Row("Asha", "Monday", 2, "8B", "Math"),
      Row("Asha", "Monday", NumPeriods, "8A", "Math"),
      Row("Bina", "Tuesday", 1, "8A", subjectB),
      Row("Chitra", "Tuesday", 1, "8B", subjectC)>>
    \o [n \in 1 .. loadB |-> Row("Bina", "Monday", NumPeriods, "8A", subjectB)]
    \o [n \in 1 .. loadC |-> Row("Chitra", "Monday", NumPeriods, "8B", subjectC)]

LoadedTimetables ==
    {LoadedTimetable(sb, lb, sc, lc) :
        sb \in Subjects, lb \in LoadValues, sc \in Subjects, lc \in LoadValues}

\* one run over a timetable with heavy daily loads; the request names the
\* teacher with the three lessons, on any day
InitLoaded ==
    /\ df \in LoadedTimetables
    /\ absent_teachers = [r \in Runs |-> IF r = 1 THEN <<"Asha">> ELSE <<>>]
    /\ \E d \in RequestDays : day = [r \in Runs |-> d]
    /\ pc = [r \in Runs |-> IF r = 1 THEN "call" ELSE "idle"]
    /\ required_slots = [r \in Runs |-> <<>>]
    /\ idx = [r \in Runs |-> 0]
    /\ substitute_load = [r \in Runs |-> [k \in Teachers \X RequestDays |-> 0]]
    /\ busy_substitutes = [r \in Runs |-> [k \in RequestDays \X Periods |-> {}]]
    /\ plans = [r \in Runs |-> <<>>]

SpecLoaded == InitLoaded /\ [][Next]_vars

\* the steps of the two runs in any interleaving
SpecPair == InitPair /\ [][Next]_vars

Spec == Init /\ [][Next]_vars

-----------------------------------------------------------------------------
(* What the properties below speak of, stated on the state alone *)

\* the substitute columns of the records of a plan
IsFilled(rec) == rec.Substitute_Teacher # NoSubstitute

\* the rows of the timetable that the request of run r asks to cover
RowsToCover(r) ==
    {i \in DOMAIN df :
        /\ df[i].day = day[r]
        /\ \E k \in DOMAIN absent_teachers[r] : absent_teachers[r][k] = df[i].teacher}

\* the place of a teacher in the list the caller supplied
PlaceInRequest(r, teacher) ==
    CHOOSE k \in DOMAIN absent_teachers[r] : absent_teachers[r][k] = teacher

\* the place of a name in the sorted order of names
Rank(teacher) == CHOOSE k \in DOMAIN TeacherNames : TeacherNames[k] = teacher

\* the records of the plan of run r that name the teacher as substitute
RecordsNaming(r, teacher) ==
    {k \in DOMAIN plans[r] : plans[r][k].Substitute_Teacher = teacher}

\* teacher t has a row of its own at the day and period
OwnLessonAt(t, d, p) ==
    \E i \in DOMAIN df : df[i].teacher = t /\ df[i].day = d /\ df[i].period = p

\* run r takes one pass of the loop body
SlotStep(r) == pc[r] = "loop" /\ idx'[r] = idx[r] + 1

\* teacher t of the timetable passes the four filters for period p in the
\* state run r has reached
EligibleAt(r, t, p) ==
    /\ \E i \in DOMAIN df : df[i].teacher = t
    /\ \A n \in DOMAIN absent_teachers[r] : absent_teachers[r][n] # t
    /\ ~OwnLessonAt(t, day[r], p)
    /\ t \notin busy_substitutes[r][<<day[r], p>>]
    /\ substitute_load[r][<<t, day[r]>>] < MAX_SUBSTITUTIONS_PER_DAY

\* the score of teacher t for a slot of the subject in run r
ScoreAt(r, t, subject) ==
    (IF \E i \in DOMAIN df : df[i].teacher = t /\ df[i].subject = subject
        THEN 100 ELSE 0)
    + (10 - Cardinality({i \in DOMAIN df :
                            df[i].teacher = t /\ df[i].day = day[r]}))

\* the request of run r names only teachers of the timetable and a day of DAYS
ValidRequest(r) ==
    /\ \A n \in DOMAIN absent_teachers[r] :
           \E i \in DOMAIN df : df[i].teacher = absent_teachers[r][n]
    /\ \E n \in DOMAIN DAYS : DAYS[n] = day[r]

-----------------------------------------------------------------------------
\* C1: the slots to cover are exactly the timetable rows of the absent
\* teachers on the day of the run, and the returned plan has exactly one
\* record per slot, in the order of the slots, carrying the slot's absent
\* teacher, period, class and subject; an absent teacher without a lesson
\* that day has no record.
C1_OneRecordPerSlot ==
    \A r \in Runs :
        /\ pc[r] \in {"loop", "return"} =>
            /\ Len(required_slots[r]) = Cardinality(RowsToCover(r))
            /\ \A i \in RowsToCover(r) :
                   Cardinality({k \in DOMAIN required_slots[r] :
                       required_slots[r][k] = SlotOf(df[i].teacher, df[i])})
                 = Cardinality({j \in RowsToCover(r) : df[j] = df[i]})
            /\ Len(plans[r]) = idx[r] - 1
        /\ pc[r] = "return" =>
            /\ Len(plans[r]) = Cardinality(RowsToCover(r))
            /\ \A k \in DOMAIN plans[r] :
                   /\ plans[r][k].Absent_Teacher = required_slots[r][k].absent_teacher
                   /\ plans[r][k].Day = day[r]
                   /\ plans[r][k].Period = required_slots[r][k].period
                   /\ plans[r][k].Substitute_Teaching_Class = required_slots[r][k].class
                   /\ plans[r][k].Subject = required_slots[r][k].subject
            /\ \A t \in Teachers :
                   (\A i \in DOMAIN df : ~(df[i].teacher = t /\ df[i].day = day[r]))
                       => \A k \in DOMAIN plans[r] : plans[r][k].Absent_Teacher # t

\* a returned plan of two records or more, for a request that also names a
\* teacher of the timetable who has no lesson on the day of the run
C1_Witness ==
    /\ pc[1] = "return"
    /\ Len(plans[1]) >= 2
    /\ \E k \in DOMAIN absent_teachers[1] :
        /\ \E i \in DOMAIN df : df[i].teacher = absent_teachers[1][k]
        /\ \A i \in DOMAIN df :
               ~(df[i].teacher = absent_teachers[1][k] /\ df[i].day = day[1])

\* C2: no two records of a plan that name a real substitute name the same
\* substitute for the same period of the day, and the busy set of a period
\* is the set of the substitutes the records of that period name.
C2_NoDoubleBooking ==
    \A r \in Runs :
        /\ \A i, j \in DOMAIN plans[r] :
               (/\ i # j
                /\ IsFilled(plans[r][i])
                /\ plans[r][i].Substitute_Teacher = plans[r][j].Substitute_Teacher
                /\ plans[r][i].Day = plans[r][j].Day)
                   => plans[r][i].Period # plans[r][j].Period
        /\ \A p \in Periods :
               busy_substitutes[r][<<day[r], p>>] =
                   {plans[r][k].Substitute_Teacher :
                       k \in {n \in DOMAIN plans[r] :
                                 IsFilled(plans[r][n]) /\ plans[r][n].Period = p}}

\* two slots of one period: the first is filled, the second is not although
\* the substitute of the first is below the cap
C2_Witness ==
    \E i, j \in DOMAIN plans[1] :
        /\ i < j
        /\ plans[1][i].Period = plans[1][j].Period
        /\ IsFilled(plans[1][i])
        /\ ~IsFilled(plans[1][j])
        /\ substitute_load[1][<<plans[1][i].Substitute_Teacher, day[1]>>]
               < MAX_SUBSTITUTIONS_PER_DAY

\* C3: for every teacher the number of records naming the teacher as
\* substitute equals substitute_load[(teacher, day)] and is at most
\* MAX_SUBSTITUTIONS_PER_DAY; every record was written while its substitute
\* was below the cap.
C3_DailyCap ==
    \A r \in Runs :
        /\ \A t \in Teachers :
            /\ Cardinality(RecordsNaming(r, t)) = substitute_load[r][<<t, day[r]>>]
            /\ Cardinality(RecordsNaming(r, t)) <= MAX_SUBSTITUTIONS_PER_DAY
        /\ \A k \in DOMAIN plans[r] :
               IsFilled(plans[r][k]) =>
                   plans[r][k].Substitutions_Today[1] < MAX_SUBSTITUTIONS_PER_DAY

\* a slot is left unfilled while a teacher who is not absent, has no lesson
\* and no substitution in that period and teaches its subject is at the cap
C3_Witness ==
    \E k \in DOMAIN plans[1], t \in Teachers :
        /\ ~IsFilled(plans[1][k])
        /\ \A n \in DOMAIN absent_teachers[1] : absent_teachers[1][n] # t
        /\ ~OwnLessonAt(t, day[1], plans[1][k].Period)
        /\ t \notin busy_substitutes[1][<<day[1], plans[1][k].Period>>]
        /\ \E i \in DOMAIN df :
               df[i].teacher = t /\ df[i].subject = plans[1][k].Subject
        /\ substitute_load[1][<<t, day[1]>>] = MAX_SUBSTITUTIONS_PER_DAY

\* C4: the substitute of a record has no row of its own in the timetable at
\* the day and period of the record.
C4_SubstituteIsFree ==
    \A r \in Runs : \A k \in DOMAIN plans[r] :
        IsFilled(plans[r][k]) =>
            ~OwnLessonAt(plans[r][k].Substitute_Teacher,
                         plans[r][k].Day, plans[r][k].Period)

\* a slot on a day other than the first of DAYS is filled, and a teacher who
\* comes earlier in the scan, is not absent and was never chosen teaches in
\* that period
C4_Witness ==
    \E k \in DOMAIN plans[1], t \in Teachers :
        /\ IsFilled(plans[1][k])
        /\ plans[1][k].Day # DAYS[1]
        /\ Rank(t) < Rank(plans[1][k].Substitute_Teacher)
        /\ \A n \in DOMAIN absent_teachers[1] : absent_teachers[1][n] # t
        /\ substitute_load[1][<<t, day[1]>>] = 0
        /\ OwnLessonAt(t, day[1], plans[1][k].Period)

\* C5: the substitute of a record is no member of absent_teachers.
C5_SubstituteNotAbsent ==
    \A r \in Runs : \A k \in DOMAIN plans[r] :
        IsFilled(plans[r][k]) =>
            \A n \in DOMAIN absent_teachers[r] :
                absent_teachers[r][n] # plans[r][k].Substitute_Teacher

\* a slot is filled while another absent teacher, not the first of the
\* request, has no lesson in that period
C5_Witness ==
    \E k \in DOMAIN plans[1], n \in DOMAIN absent_teachers[1] :
        /\ IsFilled(plans[1][k])
        /\ n > 1
        /\ absent_teachers[1][n] # plans[1][k].Absent_Teacher
        /\ \E i \in DOMAIN df : df[i].teacher = absent_teachers[1][n]
        /\ ~OwnLessonAt(absent_teachers[1][n], day[1], plans[1][k].Period)

\* C9: the slots, and the records of the plan, are in ascending order of
\* period, and those of one period are in the order in which their absent
\* teachers stand in the request.
C9_PeriodOrder ==
    \A r \in Runs :
        /\ \A i, j \in DOMAIN required_slots[r] :
               i < j =>
                   /\ required_slots[r][i].period <= required_slots[r][j].period
                   /\ required_slots[r][i].period = required_slots[r][j].period =>
                          PlaceInRequest(r, required_slots[r][i].absent_teacher)
                              <= PlaceInRequest(r, required_slots[r][j].absent_teacher)
        /\ \A i, j \in DOMAIN plans[r] :
               i < j =>
                   /\ plans[r][i].Period <= plans[r][j].Period
                   /\ plans[r][i].Period = plans[r][j].Period =>
                          PlaceInRequest(r, plans[r][i].Absent_Teacher)
                              <= PlaceInRequest(r, plans[r][j].Absent_Teacher)

\* a returned plan with two records of one period whose absent teachers the
\* request names against the order of names, behind a record of an earlier
\* period that belongs to the teacher the request names last
C9_Witness ==
    /\ pc[1] = "return"
    /\ \E h, i, j \in DOMAIN plans[1] :
        /\ h < i /\ i < j
        /\ plans[1][h].Period < plans[1][i].Period
        /\ plans[1][i].Period = plans[1][j].Period
        /\ Rank(plans[1][i].Absent_Teacher) > Rank(plans[1][j].Absent_Teacher)
        /\ plans[1][h].Absent_Teacher = plans[1][j].Absent_Teacher

\* C6: two runs with the same absent_teachers and the same day over the same
\* timetable (hence the same ALL_TEACHERS) return identical plans, whatever
\* the other run has done in between.
C6_Deterministic ==
    \A r1, r2 \in Runs :
        (/\ pc[r1] = "return"
         /\ pc[r2] = "return"
         /\ absent_teachers[r1] = absent_teachers[r2]
         /\ day[r1] = day[r2])
            => plans[r1] = plans[r2]

\* both runs have returned, for the same request, a plan of two records or
\* more of which one is filled and one is not
C6_Witness ==
    /\ pc[1] = "return"
    /\ pc[2] = "return"
    /\ absent_teachers[1] = absent_teachers[2]
    /\ day[1] = day[2]
    /\ \E i, j \in DOMAIN plans[2] : IsFilled(plans[2][i]) /\ ~IsFilled(plans[2][j])

\* C7: a run whose request names a teacher outside ALL_TEACHERS or a day
\* outside DAYS is rejected: it does not return a plan.
C7_InvalidRequestRejected ==
    \A r \in Runs : pc[r] = "return" => ValidRequest(r)

\* C8: a pass of the loop body appends one record; the record is a failure
\* record exactly when no teacher passes the four filters in the state
\* before the pass; a failure record has None for daily load,
\* substitutions today and score and the fixed reason, and the pass leaves
\* substitute_load and busy_substitutes as they were; the run stays in the
\* loop, at the next slot.
C8_FailureIffNoCandidate ==
    [][\A r \in Runs :
          SlotStep(r) =>
              LET slot == required_slots[r][idx[r]]
                  rec == plans'[r][Len(plans'[r])]
              IN  /\ plans'[r] = Append(plans[r], rec)
                  /\ ~IsFilled(rec) <=>
                         \A t \in Teachers : ~EligibleAt(r, t, slot.period)
                  /\ ~IsFilled(rec) =>
                         /\ rec.Substitute_Teacher = "--"
                         /\ rec.Teacher_Daily_Load = <<>>
                         /\ rec.Substitutions_Today = <<>>
                         /\ rec.Selection_Score = <<>>
                         /\ rec.Why_Selected = <<"No suitable substitute available">>
                         /\ substitute_load'[r] = substitute_load[r]
                         /\ busy_substitutes'[r] = busy_substitutes[r]
                  /\ pc'[r] = "loop"
                  /\ required_slots'[r] = required_slots[r]]_vars

\* a failure record is followed by a filled one: the run went on
C8_Witness ==
    \E k \in DOMAIN plans[1] :
        /\ k < Len(plans[1])
        /\ ~IsFilled(plans[1][k])
        /\ IsFilled(plans[1][k + 1])

\* C10: when some teacher passes the four filters, the substitute of the
\* new record passes them, no teacher that passes them has a greater score,
\* and none with the same score comes earlier in the order of names.
C10_MaxScoreFirst ==
    [][\A r \in Runs :
          (SlotStep(r) /\ \E t \in Teachers :
                              EligibleAt(r, t, required_slots[r][idx[r]].period)) =>
              LET slot == required_slots[r][idx[r]]
                  selected == plans'[r][Len(plans'[r])].Substitute_Teacher
              IN  /\ EligibleAt(r, selected, slot.period)
                  /\ \A t \in Teachers :
                         EligibleAt(r, t, slot.period) =>
                             /\ ScoreAt(r, t, slot.subject)
                                    <= ScoreAt(r, selected, slot.subject)
                             /\ ScoreAt(r, t, slot.subject)
                                    = ScoreAt(r, selected, slot.subject)
                                        => Rank(selected) <= Rank(t)]_vars

\* the last record is filled, and a teacher later in the order of names
\* passes the four filters for its period with the same score
C10_Witness ==
    /\ plans[1] # <<>>
    /\ LET rec == plans[1][Len(plans[1])]
       IN  /\ IsFilled(rec)
           /\ \E t \in Teachers :
               /\ Rank(t) > Rank(rec.Substitute_Teacher)
               /\ EligibleAt(1, t, rec.Period)
               /\ ScoreAt(1, t, rec.Subject)
                      = ScoreAt(1, rec.Substitute_Teacher, rec.Subject)

\* the records of the plan of run r for period p
RecordsOfPeriod(r, p) == {k \in DOMAIN plans[r] : plans[r][k].Period = p}

\* the teachers that pass the filters when run r comes to the first slot of
\* period p: of the timetable, not absent, without a lesson at p, and named
\* by fewer records of earlier periods than the cap
EligibleForPeriod(r, p) ==
    {t \in Teachers :
        /\ \E i \in DOMAIN df : df[i].teacher = t
        /\ \A n \in DOMAIN absent_teachers[r] : absent_teachers[r][n] # t
        /\ ~OwnLessonAt(t, day[r], p)
        /\ Cardinality({k \in DOMAIN plans[r] :
               /\ plans[r][k].Substitute_Teacher = t
               /\ plans[r][k].Period < p}) < MAX_SUBSTITUTIONS_PER_DAY}

\* where k slots of run r share period p and m < k teachers are eligible for
\* it, the records of the first m of them are filled and the others are not
FirstComeFirstServed(r) ==
    \A p \in Periods :
        LET k == Cardinality({n \in DOMAIN required_slots[r] :
                                 required_slots[r][n].period = p})
            m == Cardinality(EligibleForPeriod(r, p))
        IN  m < k =>
                \A n \in RecordsOfPeriod(r, p) :
                    IsFilled(plans[r][n]) <=>
                        Cardinality({j \in RecordsOfPeriod(r, p) : j <= n}) <= m

\* C11: when k slots share a period and m < k teachers are eligible for it,
\* the first m of them in processing order are filled and the other k - m
\* are marked unfilled; a record once in the plan is never changed or removed.
C11_EarlierSlotsFirst ==
    [][\A r \in Runs :
          /\ FirstComeFirstServed(r)'
          /\ \A k \in DOMAIN plans[r] :
                 k \in DOMAIN plans'[r] /\ plans'[r][k] = plans[r][k]]_vars

\* a returned plan in which two slots share a period that one teacher is
\* eligible for: the first is filled, the second marked unfilled
C11_Witness ==
    /\ pc[1] = "return"
    /\ \E p \in Periods :
        /\ Cardinality(RecordsOfPeriod(1, p)) = 2
        /\ Cardinality(EligibleForPeriod(1, p)) = 1
        /\ \E i, j \in RecordsOfPeriod(1, p) :
            /\ i < j
            /\ plans[1][i].Absent_Teacher # plans[1][j].Absent_Teacher
            /\ plans[1][i].Substitute_Teacher \in EligibleForPeriod(1, p)
            /\ plans[1][j].Why_Selected = <<"No suitable substitute available">>

\* the records before the k-th of run r that name the substitute of the k-th
EarlierRecordsNaming(r, k) ==
    {j \in DOMAIN plans[r] :
        j < k /\ plans[r][j].Substitute_Teacher = plans[r][k].Substitute_Teacher}

\* every filled record carries the number of earlier records of its
\* substitute, a number from 0 to the cap less one
RecordsCountFromZero(r) ==
    \A k \in DOMAIN plans[r] :
        IsFilled(plans[r][k]) =>
            /\ plans[r][k].Substitutions_Today =
                   <<Cardinality(EarlierRecordsNaming(r, k))>>
            /\ plans[r][k].Substitutions_Today[1] \in
                   0 .. (MAX_SUBSTITUTIONS_PER_DAY - 1)

\* C12: Substitutions Today of a filled record is the counter of its
\* substitute before the increment: the k-th record naming a teacher carries
\* k - 1, a value in 0 .. cap - 1; a pass of the loop body that fills the slot
\* adds exactly 1 to the counter of the chosen teacher and nothing to any
\* other counter, and a pass that does not fill it changes no counter.
C12_CountBeforeIncrement ==
    [][\A r \in Runs :
          /\ RecordsCountFromZero(r)'
          /\ SlotStep(r) =>
                 LET rec == plans'[r][Len(plans'[r])]
                 IN  /\ IsFilled(rec) =>
                            rec.Substitutions_Today =
                                <<substitute_load[r][<<rec.Substitute_Teacher, day[r]>>]>>
                     /\ \A key \in DOMAIN substitute_load[r] :
                            substitute_load'[r][key] =
                                substitute_load[r][key] +
                                    (IF key = <<rec.Substitute_Teacher, day[r]>>
                                        THEN 1 ELSE 0)]_vars

\* the second record naming a teacher carries 1, the counter of that teacher
\* stands at 2, and a later record is unfilled
C12_Witness ==
    \E j, k, n \in DOMAIN plans[1] :
        /\ j < k /\ k < n
        /\ IsFilled(plans[1][j])
        /\ plans[1][j].Substitute_Teacher = plans[1][k].Substitute_Teacher
        /\ plans[1][j].Substitutions_Today = <<0>>
        /\ plans[1][k].Substitutions_Today = <<1>>
        /\ ~IsFilled(plans[1][n])
        /\ substitute_load[1][<<plans[1][k].Substitute_Teacher, day[1]>>] = 2

\* the number of rows of teacher t on day d
OwnLessonsOn(t, d) ==
    Cardinality({i \in DOMAIN df : df[i].teacher = t /\ df[i].day = d})

\* teacher t has a row with the subject, on whatever day
TeachesSomewhere(t, subject) ==
    \E i \in DOMAIN df : df[i].teacher = t /\ df[i].subject = subject

\* C13: in every filled record Is Same Subject is true iff some row of the
\* timetable has the substitute teaching the subject of the slot; Teacher
\* Daily Load is the number of the substitute's own rows on the day,
\* whatever was assigned in the run; Selection Score is (100 if same subject
\* else 0) + (10 - daily load); so a same-subject record has a score of at
\* least 100 exactly when the daily load is at most 10.
C13_RecordColumns ==
    \A r \in Runs : \A k \in DOMAIN plans[r] :
        IsFilled(plans[r][k]) =>
            LET rec == plans[r][k]
                load == OwnLessonsOn(rec.Substitute_Teacher, rec.Day)
            IN  /\ rec.Is_Same_Subject <=>
                       TeachesSomewhere(rec.Substitute_Teacher, rec.Subject)
                /\ rec.Teacher_Daily_Load = <<load>>
                /\ rec.Selection_Score =
                       <<(IF rec.Is_Same_Subject THEN 100 ELSE 0) + (10 - load)>>
                /\ rec.Is_Same_Subject =>
                       (rec.Selection_Score[1] >= 100 <=> load <= 10)

\* a same-subject record with a daily load of 11 and a score of 99, and
\* another filled record of the same substitute with the same daily load
C13_Witness ==
    \E j, k \in DOMAIN plans[1] :
        /\ j < k
        /\ IsFilled(plans[1][k])
        /\ plans[1][j].Substitute_Teacher = plans[1][k].Substitute_Teacher
        /\ plans[1][k].Is_Same_Subject
        /\ plans[1][k].Substitutions_Today = <<1>>
        /\ plans[1][k].Teacher_Daily_Load = <<11>>
        /\ plans[1][j].Teacher_Daily_Load = <<11>>
        /\ plans[1][k].Selection_Score = <<99>>

\* the substitute that the pass of run r through the loop body writes
SelectedBy(r) == plans'[r][Len(plans'[r])].Substitute_Teacher

\* teacher t passes the filters for the slot run r is at and teaches its subject
EligibleSameSubject(r, t) ==
    /\ EligibleAt(r, t, required_slots[r][idx[r]].period)
    /\ TeachesSomewhere(t, required_slots[r][idx[r]].subject)

\* teacher t passes the filters for the slot run r is at and does not teach
\* its subject
EligibleOtherSubject(r, t) ==
    /\ EligibleAt(r, t, required_slots[r][idx[r]].period)
    /\ ~TeachesSomewhere(t, required_slots[r][idx[r]].subject)

\* C14 as stated: whenever a teacher eligible for the slot teaches its
\* subject, the selected substitute teaches its subject, whatever the daily
\* loads are.
C14_SameSubjectAlwaysWins ==
    [][\A r \in Runs :
          (SlotStep(r) /\ \E t \in Teachers : EligibleSameSubject(r, t)) =>
              TeachesSomewhere(SelectedBy(r), required_slots[r][idx[r]].subject)]_vars

\* C14, amended: whenever a teacher eligible for the slot teaches its subject
\* and has a daily load less than 100 above the daily load of every eligible
\* teacher of another subject, the selected substitute teaches its subject.
C14_SameSubjectWinsWithin100 ==
    [][\A r \in Runs :
          (SlotStep(r) /\ \E t \in Teachers :
               /\ EligibleSameSubject(r, t)
               /\ \A u \in Teachers :
                      EligibleOtherSubject(r, u) =>
                          OwnLessonsOn(t, day[r]) < OwnLessonsOn(u, day[r]) + 100) =>
              TeachesSomewhere(SelectedBy(r), required_slots[r][idx[r]].subject)]_vars

\* the last record names a same-subject substitute with a daily load of 100,
\* and a teacher of another subject with a daily load of 1 passes the
\* filters for its period
C14_Witness ==
    /\ plans[1] # <<>>
    /\ LET rec == plans[1][Len(plans[1])]
       IN  /\ IsFilled(rec)
           /\ TeachesSomewhere(rec.Substitute_Teacher, rec.Subject)
           /\ OwnLessonsOn(rec.Substitute_Teacher, rec.Day) = 100
           /\ \E u \in Teachers :
               /\ EligibleAt(1, u, rec.Period)
               /\ ~TeachesSomewhere(u, rec.Subject)
               /\ OwnLessonsOn(u, rec.Day) = 1

\* teachers u and v both pass the filters for the slot run r is at, neither
\* teaches its subject, u has a daily load above 10 and v a lighter one
OverloadedAndLighter(r, u, v) ==
    /\ EligibleOtherSubject(r, u)
    /\ EligibleOtherSubject(r, v)
    /\ OwnLessonsOn(u, day[r]) > 10
    /\ OwnLessonsOn(v, day[r]) < OwnLessonsOn(u, day[r])

\* C15 as stated: with a daily load above 10 the load term is negative, and
\* the overloaded teacher of another subject still outranks an eligible
\* lighter-loaded teacher of another subject: the lighter one is not selected.
C15_OverloadedOutranksLighter ==
    [][\A r \in Runs : \A u, v \in Teachers :
          (SlotStep(r) /\ OverloadedAndLighter(r, u, v)) =>
              /\ 10 - OwnLessonsOn(u, day[r]) < 0
              /\ SelectedBy(r) # v]_vars

\* C15, amended: with a daily load above 10 the load term is negative, and
\* the overloaded teacher of another subject never outranks an eligible
\* lighter-loaded teacher of another subject: its score is negative and less
\* than the score of the lighter one, and it is not selected.
C15_LighterOutranksOverloaded ==
    [][\A r \in Runs : \A u, v \in Teachers :
          (SlotStep(r) /\ OverloadedAndLighter(r, u, v)) =>
              /\ 10 - OwnLessonsOn(u, day[r]) < 0
              /\ ScoreAt(r, u, required_slots[r][idx[r]].subject) < 0
              /\ ScoreAt(r, u, required_slots[r][idx[r]].subject)
                     < ScoreAt(r, v, required_slots[r][idx[r]].subject)
              /\ SelectedBy(r) # u]_vars

\* the last record names a substitute of another subject with a score of 0
\* or more, and a teacher of another subject with a daily load of 11 passes
\* the filters for its period
C15_Witness ==
    /\ plans[1] # <<>>
    /\ LET rec == plans[1][Len(plans[1])]
       IN  /\ IsFilled(rec)
           /\ ~TeachesSomewhere(rec.Substitute_Teacher, rec.Subject)
           /\ rec.Selection_Score[1] >= 0
           /\ \E u \in Teachers :
               /\ EligibleAt(1, u, rec.Period)
               /\ ~TeachesSomewhere(u, rec.Subject)
               /\ OwnLessonsOn(u, rec.Day) = 11
               /\ ScoreAt(1, u, rec.Subject) = -1

\* teacher t may cover slot number k of run r: of the timetable, not absent,
\* no lesson of its own in the period of the slot
MayCover(r, t, k) ==
    /\ \E i \in DOMAIN df : df[i].teacher = t
    /\ \A n \in DOMAIN absent_teachers[r] : absent_teachers[r][n] # t
    /\ ~OwnLessonAt(t, day[r], required_slots[r][k].period)

\* a gives every slot of run r a teacher or the sentinel, such that every
\* teacher may cover its slots, covers no two slots of one period and covers
\* no more slots than the cap
Feasible(r, a) ==
    /\ DOMAIN a = DOMAIN required_slots[r]
    /\ \A k \in DOMAIN a : a[k] # NoSubstitute => MayCover(r, a[k], k)
    /\ \A j, k \in DOMAIN a :
           (j # k /\ a[j] # NoSubstitute /\ a[j] = a[k]) =>
               required_slots[r][j].period # required_slots[r][k].period
    /\ \A t \in Teachers :
           Cardinality({k \in DOMAIN a : a[k] = t}) <= MAX_SUBSTITUTIONS_PER_DAY

\* the substitute column of the plan of run r
Chosen(r) == [k \in DOMAIN plans[r] |-> plans[r][k].Substitute_Teacher]

\* no row of the timetable shares teacher, day and period with another
WellFormed ==
    \A i, j \in DOMAIN df :
        (df[i].teacher = df[j].teacher /\ df[i].day = df[j].day
            /\ df[i].period = df[j].period) => i = j

\* C16: the returned plan is a feasible assignment, and no unfilled slot of
\* it can be given a teacher while the other records stay as they are; it
\* need not fill as many slots as some other feasible assignment does (the
\* state of C16_Witness).
C16_FeasibleAndMaximal ==
    \A r \in Runs :
        pc[r] = "return" =>
            /\ Feasible(r, Chosen(r))
            /\ \A k \in DOMAIN plans[r], t \in Teachers :
                   ~IsFilled(plans[r][k]) =>
                       ~Feasible(r, [Chosen(r) EXCEPT ![k] = t])

\* over a well-formed timetable and a valid request the returned plan has
\* an unfilled slot: one teacher stands at the cap and is the only one who
\* may cover it; yet some feasible assignment fills every slot
C16_Witness ==
    /\ pc[1] = "return"
    /\ WellFormed
    /\ ValidRequest(1)
    /\ \E k \in DOMAIN plans[1], t \in Teachers :
        /\ ~IsFilled(plans[1][k])
        /\ substitute_load[1][<<t, day[1]>>] = MAX_SUBSTITUTIONS_PER_DAY
        /\ \A u \in Teachers : MayCover(1, u, k) <=> u = t
    /\ \E a \in [DOMAIN required_slots[1] -> Teachers] : Feasible(1, a)

\* the substitute a run of its own gives slot number n of run r once the
\* slots before it have the substitutes prev: the teacher of the greatest
\* score, the earliest in the order of names among equals, of those free
\* given prev
SoloChoice(r, n, prev) ==
    LET slot == required_slots[r][n]
        free == {t \in Teachers :
                    /\ MayCover(r, t, n)
                    /\ \A k \in DOMAIN prev :
                           prev[k] = t =>
                               required_slots[r][k].period # slot.period
                    /\ Cardinality({k \in DOMAIN prev : prev[k] = t})
                           < MAX_SUBSTITUTIONS_PER_DAY}
        best == {t \in free :
                    \A u \in free :
                        ScoreAt(r, t, slot.subject) >= ScoreAt(r, u, slot.subject)}
    IN  IF free = {} THEN NoSubstitute
        ELSE CHOOSE t \in best : \A u \in best : Rank(t) <= Rank(u)

\* the plan of run r so far is the one a run of its own produces: record by
\* record it holds the choice that follows from the timetable, the request
\* and the records before it
PlanAsAlone(r) ==
    \A k \in DOMAIN plans[r] :
        LET prev == [j \in 1 .. k - 1 |-> plans[r][j].Substitute_Teacher]
        IN  /\ plans[r][k].Substitute_Teacher = SoloChoice(r, k, prev)
            /\ IsFilled(plans[r][k]) =>
                   plans[r][k].Substitutions_Today =
                       Some(Cardinality({j \in DOMAIN prev :
                               prev[j] = plans[r][k].Substitute_Teacher}))

\* the counters and busy sets of run r hold the substitutions of its own
\* plan and nothing else
OwnsAssignmentState(r) ==
    /\ \A t \in Teachers, d \in RequestDays :
           substitute_load[r][<<t, d>>] =
               IF d = day[r] THEN Cardinality(RecordsNaming(r, t)) ELSE 0
    /\ \A d \in RequestDays, p \in Periods :
           busy_substitutes[r][<<d, p>>] =
               IF d = day[r]
                   THEN {plans[r][k].Substitute_Teacher :
                           k \in {j \in DOMAIN plans[r] :
                                    /\ IsFilled(plans[r][j])
                                    /\ plans[r][j].Period = p}}
                   ELSE {}

\* C17: runs are isolated. No step writes the timetable; a step of one run
\* leaves the slots, counters, busy sets and plan of the other run as they
\* are; the counters and busy sets of a run hold its own substitutions only;
\* and under every interleaving the plan of a run is the plan it produces
\* alone.
C17_RunsIsolated ==
    [][/\ df' = df
       /\ \A r \in Runs :
           /\ (pc'[r] = pc[r] /\ idx'[r] = idx[r]) =>
                  /\ required_slots'[r] = required_slots[r]
                  /\ substitute_load'[r] = substitute_load[r]
                  /\ busy_substitutes'[r] = busy_substitutes[r]
                  /\ plans'[r] = plans[r]
           /\ OwnsAssignmentState(r)'
           /\ PlanAsAlone(r)']_vars

\* both runs are inside their loops for the same day; a teacher covers the
\* same period in both plans, stands at the cap in run 1 with a slot of run
\* 1 still to come, and is below the cap in run 2
C17_Witness ==
    /\ pc[1] = "loop"
    /\ pc[2] = "loop"
    /\ day[1] = day[2]
    /\ idx[1] < Len(required_slots[1])
    /\ \E t \in Teachers, p \in Periods :
        /\ t \in busy_substitutes[1][<<day[1], p>>]
        /\ t \in busy_substitutes[2][<<day[2], p>>]
        /\ substitute_load[1][<<t, day[1]>>] = MAX_SUBSTITUTIONS_PER_DAY
        /\ substitute_load[2][<<t, day[2]>>] < MAX_SUBSTITUTIONS_PER_DAY

=============================================================================
